---- MODULE Spec2Model ----
(***************************************************************************)
(* Model of create-another-app's generation engine (src/utils/scaffold.js). *)
(* One run of scaffold(projectName, config) is a state machine: the         *)
(* position of the coordinator (pc), the file system it has produced        *)
(* (dirs, files, the manifest and the env template), the ordered log of     *)
(* directory creations, file writes and external commands, the spinner      *)
(* state of every orchestrator, and the state of the returned promise.      *)
(* A step is one awaited operation of the source; every such operation may  *)
(* fail (external tool exits non-zero, file system error).                  *)
(***************************************************************************)
EXTENDS Naturals, Sequences, FiniteSets, TLC

VARIABLES config, pc, dirs, files, packageJson, envFile, log, status,
          result, cause, error, tailwind, contents

vars == <<config, pc, dirs, files, packageJson, envFile, log, status,
          result, cause, error, tailwind, contents>>

-----------------------------------------------------------------------------
(* Strings and paths *)

\* String.prototype.includes
Includes(s, sub) ==
    \E i \in 1..(Len(s) + 1) :
        /\ i + Len(sub) - 1 <= Len(s)
        /\ SubSeq(s, i, i + Len(sub) - 1) = sub

\* String.prototype.startsWith
StartsWith(s, pre) ==
    /\ Len(pre) <= Len(s)
    /\ SubSeq(s, 1, Len(pre)) = pre

\* Array.prototype.includes on a sequence
SeqIncludes(arr, x) == \E i \in 1..Len(arr) : arr[i] = x

SlashAt(p) == {i \in 1..Len(p) : SubSeq(p, i, i) = "/"}

LastSlash(p) ==
    IF SlashAt(p) = {} THEN 0
    ELSE CHOOSE i \in SlashAt(p) : \A j \in SlashAt(p) : j <= i

\* path.join of a base with a relative path ("" segments are dropped)
Join(a, b) == IF b = "" THEN a ELSE a \o "/" \o b

\* path.dirname; the working directory is "."
Dirname(p) == IF LastSlash(p) = 0 THEN "." ELSE SubSeq(p, 1, LastSlash(p) - 1)

\* path.basename
Basename(p) == SubSeq(p, LastSlash(p) + 1, Len(p))

\* fs.ensureDir creates the directory and every missing ancestor
EnsureDirSet(p) == {SubSeq(p, 1, i - 1) : i \in SlashAt(p)} \cup {p}

\* obj[k] = v on a JavaScript object
Assign(obj, k, v) ==
    [x \in (DOMAIN obj) \cup {k} |-> IF x = k THEN v ELSE obj[x]]

-----------------------------------------------------------------------------
(* The configuration record *)

ProjectTypes == {"fullstack", "frontend", "backend"}
FrontendFrameworks == {"react", "react-ts", "nextjs", "nextjs-ts"}
BackendTemplates == {"express-js", "express-ts"}
Databases == {"none", "mongodb", "postgresql"}
Features == <<"env", "eslint", "prettier", "mongodb", "auth">>
Undefined == "undefined"

\* the checkbox answer: the selected values, in the order of the choices
RECURSIVE Pick(_, _)
Pick(sel, i) ==
    IF i > Len(Features) THEN <<>>
    ELSE (IF Features[i] \in sel THEN <<Features[i]>> ELSE <<>>)
         \o Pick(sel, i + 1)

FeatureLists == {Pick(sel, 1) : sel \in SUBSET {Features[i] : i \in 1..Len(Features)}}

HasFrontend(c) == c.projectType = "fullstack" \/ c.projectType = "frontend"
HasBackend(c) == c.projectType = "fullstack" \/ c.projectType = "backend"

ValidConfigs ==
    {c \in [projectType : ProjectTypes,
            frontendFramework : FrontendFrameworks \cup {Undefined},
            includeTailwind : BOOLEAN,
            backendTemplate : BackendTemplates \cup {Undefined},
            database : Databases,
            additionalFeatures : FeatureLists,
            installDependencies : BOOLEAN] :
        /\ (c.frontendFramework # Undefined) <=> HasFrontend(c)
        /\ (c.backendTemplate # Undefined) <=> HasBackend(c)
        /\ c.includeTailwind => HasFrontend(c)}

ProjectPath == "my-app"

FrontendPath(c) ==
    IF c.projectType = "fullstack" THEN Join(ProjectPath, "frontend")
    ELSE ProjectPath

BackendPath(c) ==
    IF c.projectType = "fullstack" THEN Join(ProjectPath, "backend")
    ELSE ProjectPath

IsTypeScript(c) == Includes(c.backendTemplate, "ts")

-----------------------------------------------------------------------------
(* Package Manifest Builder *)

\* variant: dotenv only for the env feature, not for a database
DependenciesEnvFeatureOnly(c) ==
    LET base == [express |-> "^4.18.2", cors |-> "^2.8.5"]
        withEnv ==
            IF SeqIncludes(c.additionalFeatures, "env")
            THEN Assign(base, "dotenv", "^16.3.1")
            ELSE base
    IN  IF c.database = "mongodb"
        THEN Assign(withEnv, "mongoose", "^8.0.3")
        ELSE IF c.database = "postgresql"
        THEN Assign(Assign(Assign(withEnv, "pg", "^8.11.3"),
                           "bcryptjs", "^2.4.3"),
                    "jsonwebtoken", "^9.0.2")
        ELSE withEnv

Dependencies(c) ==
    LET base == [express |-> "^4.18.2", cors |-> "^2.8.5"]
        withEnv ==
            IF SeqIncludes(c.additionalFeatures, "env") \/ c.database # "none"
            THEN Assign(base, "dotenv", "^16.3.1")
            ELSE base
    IN  IF c.database = "mongodb"
        THEN Assign(withEnv, "mongoose", "^8.0.3")
        ELSE IF c.database = "postgresql"
        THEN Assign(Assign(Assign(withEnv, "pg", "^8.11.3"),
                           "bcryptjs", "^2.4.3"),
                    "jsonwebtoken", "^9.0.2")
        ELSE withEnv

\* variant: the runtime package dotenv listed among the devDependencies too
DevDependenciesWithDotenv(c) ==
    LET base == [nodemon |-> "^3.0.1", dotenv |-> "^16.3.1"]
    IN  IF IsTypeScript(c)
        THEN Assign(Assign(base, "typescript", "^5.3.3"), "tsx", "^4.7.0")
        ELSE base

DevDependencies(c) ==
    LET base == [nodemon |-> "^3.0.1"]
        ts == Assign(Assign(Assign(Assign(Assign(base,
                  "@types/express", "^4.17.17"),
                  "@types/cors", "^2.8.13"),
                  "@types/node", "^20.10.6"),
                  "typescript", "^5.3.3"),
                  "tsx", "^4.7.0")
    IN  IF IsTypeScript(c)
        THEN IF c.database = "postgresql"
             THEN Assign(ts, "@types/pg", "^8.10.9")
             ELSE ts
        ELSE base

\* variant: the build script emitted for every backend template
ScriptsAlwaysBuild(c) ==
    [start |-> IF IsTypeScript(c) THEN "node dist/index.js"
               ELSE "node index.mjs",
     dev |-> IF IsTypeScript(c) THEN "tsx watch src/index.mts"
             ELSE "nodemon index.mjs",
     build |-> "tsc"]

Scripts(c) ==
    LET two == [start |-> IF IsTypeScript(c) THEN "node dist/index.js"
                          ELSE "node index.mjs",
                dev |-> IF IsTypeScript(c) THEN "tsx watch src/index.mts"
                        ELSE "nodemon index.mjs"]
    IN  IF IsTypeScript(c) THEN Assign(two, "build", "tsc") ELSE two

createPackageJson(projectPath, c) ==
    [name |-> IF c.projectType = "fullstack"
              THEN Basename(projectPath) \o "-backend"
              ELSE Basename(projectPath),
     version |-> "1.0.0",
     description |-> "",
     type |-> "module",
     main |-> IF IsTypeScript(c) THEN "dist/index.js" ELSE "index.mjs",
     scripts |-> Scripts(c),
     dependencies |-> Dependencies(c),
     devDependencies |-> DevDependencies(c)]

-----------------------------------------------------------------------------
(* Directory Planner *)

\* variant: no db folder for mongodb
FoldersWithoutMongoDb(c) ==
    LET base == <<"routes", "controllers", "middleware", "utils">>
        byDb == IF c.database = "postgresql" THEN base \o <<"queries", "db">>
                ELSE IF c.database = "mongodb" THEN base \o <<"models">>
                ELSE base
    IN  IF IsTypeScript(c) THEN byDb \o <<"src">> ELSE byDb

\* the folders array of createBackendFolders, in the order of the ensureDir calls
Folders(c) ==
    LET base == <<"routes", "controllers", "middleware", "utils">>
        byDb == IF c.database = "postgresql" THEN base \o <<"queries", "db">>
                ELSE IF c.database = "mongodb" THEN base \o <<"models", "db">>
                ELSE base
    IN  IF IsTypeScript(c) THEN byDb \o <<"src">> ELSE byDb

\* variant: the folders of a TypeScript backend not nested under src
FolderPathFlat(backendPath, c, folder) == Join(backendPath, folder)

\* the path handed to fs.ensureDir for one entry of the folders array
FolderPath(backendPath, c, folder) ==
    IF IsTypeScript(c)
    THEN Join(backendPath, IF folder = "src" THEN folder ELSE "src/" \o folder)
    ELSE Join(backendPath, folder)

BackendFolderPaths(backendPath, c) ==
    [i \in 1..Len(Folders(c)) |-> FolderPath(backendPath, c, Folders(c)[i])]

-----------------------------------------------------------------------------
(* Paths of the generated backend files *)

Ext(c) == IF IsTypeScript(c) THEN ".mts" ELSE ".mjs"
BaseDir(c) == IF IsTypeScript(c) THEN "src" ELSE ""

ServerPath(backendPath, c) ==
    IF IsTypeScript(c) THEN Join(backendPath, "src/index" \o Ext(c))
    ELSE Join(backendPath, "index" \o Ext(c))

TsConfigPath(backendPath) == Join(backendPath, "tsconfig.json")

DbFilename(c) ==
    IF c.database = "postgresql" THEN "db" \o Ext(c)
    ELSE IF c.database = "mongodb" THEN "database" \o Ext(c)
    ELSE Undefined

DbFilePath(backendPath, c) ==
    Join(Join(backendPath, IF IsTypeScript(c) THEN "src/db" ELSE "db"),
         DbFilename(c))

ControllerPath(backendPath, c) ==
    Join(Join(Join(backendPath, BaseDir(c)), "controllers"),
         "user.controller" \o Ext(c))

RoutesPath(backendPath, c) ==
    Join(Join(Join(backendPath, BaseDir(c)), "routes"),
         "user.routes" \o Ext(c))

QueriesPath(backendPath, c) ==
    Join(Join(Join(backendPath, BaseDir(c)), "queries"),
         "user.queries" \o Ext(c))

ModelPath(backendPath, c) ==
    Join(Join(Join(backendPath, BaseDir(c)), "models"),
         "user.model" \o Ext(c))

-----------------------------------------------------------------------------
(* Features: the environment template *)

\* variant: the template left out when a database is chosen
WritesEnvWithoutDatabase(c) ==
    SeqIncludes(c.additionalFeatures, "env") /\ c.database = "none"

\* whether setupAdditionalFeatures writes the template once it is called
WritesEnv(c) ==
    SeqIncludes(c.additionalFeatures, "env") \/ c.database # "none"

\* variant: the auth block nested in the database branches
EnvContentAuthWithDatabase(c) ==
    <<"NODE_ENV", "PORT">>
    \o (IF c.database = "postgresql"
        THEN <<"DB_HOST", "DB_PORT", "DB_NAME", "DB_USER", "DB_PASSWORD">>
             \o (IF SeqIncludes(c.additionalFeatures, "auth")
                 THEN <<"JWT_SECRET">> ELSE <<>>)
        ELSE IF c.database = "mongodb"
        THEN <<"MONGODB_URI", "DB_NAME">>
             \o (IF SeqIncludes(c.additionalFeatures, "auth")
                 THEN <<"JWT_SECRET">> ELSE <<>>)
        ELSE <<>>)

\* the variables defined by envContent, line by line
EnvContent(c) ==
    <<"NODE_ENV", "PORT">>
    \o (IF c.database = "postgresql"
        THEN <<"DB_HOST", "DB_PORT", "DB_NAME", "DB_USER", "DB_PASSWORD">>
        ELSE IF c.database = "mongodb" THEN <<"MONGODB_URI", "DB_NAME">>
        ELSE <<>>)
    \o (IF SeqIncludes(c.additionalFeatures, "auth")
        THEN <<"JWT_SECRET">> ELSE <<>>)

\* variant: the template always written to the project root
EnvPathAlwaysRoot(c) == Join(ProjectPath, ".env.example")

EnvPath(c) ==
    IF c.projectType = "fullstack"
    THEN Join(ProjectPath, "backend/.env.example")
    ELSE Join(ProjectPath, ".env.example")

-----------------------------------------------------------------------------
(* Scaffold Coordinator: which stage follows which *)

Orchestrators == {"frontend", "backend", "styling", "features", "install"}

AfterInstall(c) == "generateReadme"

\* variant: the installDependencies answer ignored
AfterFeaturesAlwaysInstall(c) == "installDependencies"

AfterFeatures(c) ==
    IF c.installDependencies THEN "installDependencies" ELSE AfterInstall(c)

AfterBackend(c) ==
    IF Len(c.additionalFeatures) > 0 THEN "setupAdditionalFeatures"
    ELSE AfterFeatures(c)

\* variant: the backend set up for a backend-only project alone
AfterFrontendBackendOnly(c) ==
    IF c.projectType = "backend"
    THEN "setupBackend"
    ELSE AfterBackend(c)

AfterFrontend(c) ==
    IF c.projectType = "fullstack" \/ c.projectType = "backend"
    THEN "setupBackend"
    ELSE AfterBackend(c)

AfterCreate(c) ==
    IF c.projectType = "fullstack" \/ c.projectType = "frontend"
    THEN "setupFrontend"
    ELSE AfterFrontend(c)

-----------------------------------------------------------------------------
(* Events, errors and the common shape of a step *)

Ev(op, target, arg) == [op |-> op, target |-> target, arg |-> arg]
Begin(stage) == Ev("begin", stage, "")
End(stage) == Ev("end", stage, "")

Err(kind, at) == [kind |-> kind, at |-> at]
NoError == Err("none", "none")

\* variant: the catch block raises an error of its own
RethrowWrapped(e) == Err("Error", "Setup failed")

\* catch (error) { spinner.fail(...); throw error; }
Rethrow(e) == e

\* variant: the error is reported and swallowed, and the run goes on
ThrowSwallowed(orchs, e, newLog) ==
    /\ pc' = "generateReadme"
    /\ status' = [o \in Orchestrators |->
                    IF o \in orchs THEN "failed" ELSE status[o]]
    /\ cause' = e
    /\ result' = "pending"
    /\ error' = NoError
    /\ log' = newLog
    /\ UNCHANGED <<dirs, files, packageJson, envFile>>

\* A step throws e inside the try blocks of the orchestrators orchs: each of
\* them reports failed and re-raises, and the promise of scaffold rejects.
Throw(orchs, e, newLog) ==
    /\ pc' = "failed"
    /\ status' = [o \in Orchestrators |->
                    IF o \in orchs THEN "failed" ELSE status[o]]
    /\ cause' = e
    /\ result' = "rejected"
    /\ error' = Rethrow(e)
    /\ log' = newLog
    /\ UNCHANGED <<dirs, files, packageJson, envFile>>

\* The step goes on to nextPc; the orchestrators in started begin with it and
\* those in ended report succeeded and return with it.
Proceed(nextPc, started, ended, newLog) ==
    /\ pc' = nextPc
    /\ status' = [o \in Orchestrators |->
                    IF o \in ended THEN "succeeded"
                    ELSE IF o \in started THEN "running"
                    ELSE status[o]]
    /\ log' = newLog
    /\ UNCHANGED <<cause, result, error>>

\* fs.writeFile / fs.writeJson of path p: fails when the directory that is to
\* hold it does not exist, and may fail for any other file system reason
WriteFile(p, content, orchs, nextPc, started, ended, before, after) ==
    LET l == (log \o before) \o <<Ev("write", p, "")>> IN
    \E ok \in BOOLEAN :
        IF ok /\ Dirname(p) \in dirs
        THEN /\ files' = files \cup {p}
             /\ contents' = Assign(contents, p, content)
             /\ Proceed(nextPc, started, ended, l \o after)
        ELSE /\ Throw(orchs, Err("FilesystemError", p), l)
             /\ UNCHANGED contents

-----------------------------------------------------------------------------
(* Styling Orchestrator: the rewrites of vite.config and src/index.css.     *)
(* A file is <<>> when it does not exist and <<content>> when it does.      *)

\* String.prototype.indexOf, counted from 1; 0 when sub does not occur
IndexOf(s, sub) ==
    LET at == {i \in 1..Len(s) :
                  /\ i + Len(sub) - 1 <= Len(s)
                  /\ SubSeq(s, i, i + Len(sub) - 1) = sub}
    IN  IF at = {} THEN 0 ELSE CHOOSE i \in at : \A j \in at : i <= j

\* String.prototype.replace with one match: the first occurrence is replaced
ReplaceFirst(s, sub, rep) ==
    LET i == IndexOf(s, sub) IN
    IF i = 0 THEN s
    ELSE (SubSeq(s, 1, i - 1) \o rep) \o SubSeq(s, i + Len(sub), Len(s))

\* the texts matched by /(import\s+{[^}]+}\s+from\s+['"]vite['"])/ in the
\* configurations considered
NamedViteImports ==
    {"import { defineConfig } from 'vite'",
     "import { defineConfig } from \"vite\""}

\* viteConfig.match(...): the leftmost match, "" when there is none
ImportMatch(v) ==
    LET found == {m \in NamedViteImports : Includes(v, m)} IN
    IF found = {} THEN ""
    ELSE CHOOSE m \in found : \A n \in found : IndexOf(v, m) <= IndexOf(v, n)

TailwindPluginImport == "import tailwindcss from '@tailwindcss/vite'"
PluginsOpen == "plugins: ["
PluginsWithTailwind == "plugins: [\n    tailwindcss(),"

\* lines 247-271: the vite config after one run of setupTailwind
RewriteViteConfig(cfg) ==
    IF cfg = <<>> THEN cfg
    ELSE LET v == cfg[1] IN
         IF ~Includes(v, "@tailwindcss/vite")
         THEN LET m == ImportMatch(v)
                  v1 == IF m # ""
                        THEN ReplaceFirst(v, m,
                                 (m \o "\n") \o TailwindPluginImport)
                        ELSE v
              IN  <<ReplaceFirst(v1, PluginsOpen, PluginsWithTailwind)>>
         ELSE <<v>>

TailwindImport == "@import \"tailwindcss\";\n\n"
CssMarker == "@import \"tailwindcss\""

\* variant: the import prepended without looking at the file
RewriteCssAlwaysPrepend(css) ==
    IF css # <<>> THEN <<TailwindImport \o css[1]>> ELSE <<TailwindImport>>

\* lines 273-285: src/index.css after one run of setupTailwind
RewriteCss(css) ==
    IF css # <<>>
    THEN IF ~Includes(css[1], CssMarker)
         THEN <<TailwindImport \o css[1]>>
         ELSE css
    ELSE <<TailwindImport>>

\* the state of the two files: as found (0), now, and after the first run (1)
\* pkg holds the names of the devDependencies of the frontend package.json
TailwindState(css, cfg) ==
    [css0 |-> css, cfg0 |-> cfg, css |-> css, cfg |-> cfg,
     css1 |-> css, cfg1 |-> cfg, pkg |-> {"vite"}, runs |-> 0]

TailwindIdle == TailwindState(<<>>, <<>>)

-----------------------------------------------------------------------------
(* What the generated files hold.  A module is the template it was made     *)
(* from, its import declarations (the specifier and the imported names,     *)
(* "default" for a default import) and the names it exports.                *)

Import(from, names) == [from |-> from, names |-> names]

Module(template, imports, exports) ==
    [template |-> template, imports |-> imports, exports |-> exports]

\* const envImport = ... ? "import dotenv from 'dotenv'; ..." : ""
EnvImport(c) ==
    IF SeqIncludes(c.additionalFeatures, "env")
    THEN {Import("dotenv", {"default"})}
    ELSE {}

ExpressImports ==
    {Import("express", {"default"}), Import("cors", {"default"})}

\* the template createServerFile picks, applied to config
ServerTemplate(c) ==
    IF c.database = "postgresql"
    THEN Module("postgresql-server",
                EnvImport(c) \cup ExpressImports
                    \cup {Import("./db/db.mjs", {"default"})}, {})
    ELSE IF c.database = "mongodb"
    THEN Module("mongodb-server",
                EnvImport(c) \cup ExpressImports
                    \cup {Import("./db/database.mjs", {"connectDB"})}, {})
    ELSE Module("no-database-server", EnvImport(c) \cup ExpressImports, {})

\* the template createDatabaseFiles picks; postgresql-db.template.js is not
\* among the sources, so of its module only the name is known
DbTemplate(c) ==
    IF c.database = "postgresql"
    THEN Module("postgresql-db", {}, {})
    ELSE Module("mongodb-db", {Import("mongoose", {"default"})},
                {"connectDB"})

\* sample-user-controller.template.js, called with config.database || "none"
ControllerTemplate(database) ==
    IF database = "postgresql"
    THEN Module("sample-user-controller/postgresql",
                {Import("bcryptjs", {"default"}),
                 Import("jsonwebtoken", {"default"}),
                 Import("../db/db.mjs", {"pool"}),
                 Import("../queries/user.queries.mjs",
                        {"CHECK_USER_EXISTS", "GET_USER_BY_EMAIL_ID",
                         "GET_USERS", "INSERT_USER"})},
                {"signup", "login", "getAllUsers"})
    ELSE Module("sample-user-controller/mongoose",
                {Import("../models/user.model.mjs", {"default"})},
                {"getAllUsers", "getUserById", "createUser", "updateUser",
                 "deleteUser"})

\* config.database || "none"
DatabaseOrNone(c) == IF c.database = Undefined THEN "none" ELSE c.database

\* sample-user-routes.template.js
RoutesTemplate ==
    Module("sample-user-routes",
           {Import("express", {"default"}),
            Import("../controllers/user.controller.mjs",
                   {"signup", "login", "getAllUsers"})},
           {"default"})

\* sample-user-query.template.js and sample-user-model.template.js are not
\* among the sources, so of their modules only the name is known
SampleDbTemplate(c) ==
    IF c.database = "postgresql" THEN Module("sample-user-query", {}, {})
    ELSE Module("sample-user-model", {}, {})

\* variant: a tsconfig whose output directory follows the database
TsConfigByDatabase(c) ==
    [compilerOptions |->
        [target |-> "ES2020", module |-> "NodeNext",
         moduleResolution |-> "NodeNext",
         outDir |-> IF c.database = "none" THEN "./dist" ELSE "./build",
         rootDir |-> "./src", strict |-> TRUE, esModuleInterop |-> TRUE,
         skipLibCheck |-> TRUE, forceConsistentCasingInFileNames |-> TRUE],
     include |-> <<"src/**/*">>,
     exclude |-> <<"node_modules">>]

\* the tsConfig object of createServerFile
TsConfig(c) ==
    [compilerOptions |->
        [target |-> "ES2020", module |-> "NodeNext",
         moduleResolution |-> "NodeNext", outDir |-> "./dist",
         rootDir |-> "./src", strict |-> TRUE, esModuleInterop |-> TRUE,
         skipLibCheck |-> TRUE, forceConsistentCasingInFileNames |-> TRUE],
     include |-> <<"src/**/*">>,
     exclude |-> <<"node_modules">>]

EnvFeatureLine == "Environment variables setup"

\* the lines under "## Features" of the README, by what they announce
ReadmeFeatures(c) ==
    (IF c.projectType # "backend" THEN {"frontend"} ELSE {})
    \cup (IF c.includeTailwind THEN {"Tailwind CSS v4 for styling"} ELSE {})
    \cup (IF c.projectType # "frontend" THEN {"Express.js backend"} ELSE {})
    \cup (IF c.database = "mongodb"
          THEN {"MongoDB integration with Mongoose"} ELSE {})
    \cup (IF c.database = "postgresql"
          THEN {"PostgreSQL integration with pg"} ELSE {})
    \cup (IF SeqIncludes(c.additionalFeatures, "env") \/ c.database # "none"
          THEN {EnvFeatureLine} ELSE {})

Readme(c) == [template |-> "README", features |-> ReadmeFeatures(c)]

NoContents == <<>>

-----------------------------------------------------------------------------
(* Init *)

Init ==
    /\ config \in ValidConfigs
    /\ pc = "scaffold"
    /\ dirs = {"."}
    /\ files = {}
    /\ packageJson = <<>>
    /\ envFile = <<>>
    /\ log = <<>>
    /\ status = [o \in Orchestrators |-> "pending"]
    /\ result = "pending"
    /\ cause = NoError
    /\ error = NoError
    /\ tailwind = TailwindIdle
    /\ contents = NoContents

-----------------------------------------------------------------------------
(* scaffold: the project directory *)

EnsureProjectDir ==
    /\ pc = "scaffold"
    /\ LET l == Append(log, Ev("mkdir", ProjectPath, "")) IN
       \E ok \in BOOLEAN :
         IF ok
         THEN /\ dirs' = dirs \cup EnsureDirSet(ProjectPath)
              /\ Proceed(AfterCreate(config), {}, {}, l)
              /\ UNCHANGED <<files, packageJson, envFile>>
         ELSE Throw({}, Err("FilesystemError", ProjectPath), l)
    /\ UNCHANGED <<config, tailwind, contents>>

-----------------------------------------------------------------------------
(* Frontend Orchestrator *)

IsNextJS(c) == StartsWith(c.frontendFramework, "nextjs")

\* variant: the styling flag of create-next-app not derived from includeTailwind
FrontendCommandAlwaysTailwind(c) ==
    IF IsNextJS(c)
    THEN "npx create-next-app@latest " \o Basename(FrontendPath(c)) \o " "
         \o (IF c.frontendFramework = "nextjs-ts" THEN "--ts" ELSE "--js")
         \o " --tailwind --eslint --app --no-src-dir --import-alias \"@/*\""
    ELSE "npm create vite@latest " \o Basename(FrontendPath(c))
         \o " -- --template " \o c.frontendFramework

FrontendCommand(c) ==
    IF IsNextJS(c)
    THEN "npx create-next-app@latest " \o Basename(FrontendPath(c)) \o " "
         \o (IF c.frontendFramework = "nextjs-ts" THEN "--ts" ELSE "--js")
         \o " "
         \o (IF c.includeTailwind THEN "--tailwind" ELSE "--no-tailwind")
         \o " --eslint --app --no-src-dir --import-alias \"@/*\""
    ELSE "npm create vite@latest " \o Basename(FrontendPath(c))
         \o " -- --template " \o c.frontendFramework

ViteConfigPath(c) ==
    Join(FrontendPath(c),
         IF c.frontendFramework = "react-ts" THEN "vite.config.ts"
         ELSE "vite.config.js")

\* what the external scaffolding tool leaves behind when it exits with 0
ToolDirs(c) ==
    EnsureDirSet(FrontendPath(c))
    \cup (IF IsNextJS(c) THEN {Join(FrontendPath(c), "app")}
          ELSE {Join(FrontendPath(c), "src")})

ToolFiles(c) ==
    {Join(FrontendPath(c), "package.json")}
    \cup (IF IsNextJS(c) THEN {}
          ELSE {ViteConfigPath(c), Join(FrontendPath(c), "src/index.css")})

\* variant: the Styling Orchestrator run for every Vite project
SetupFrontendAlwaysStyles ==
    /\ pc = "setupFrontend"
    /\ LET l == log \o <<Begin("frontend"),
                         Ev("exec", Dirname(FrontendPath(config)),
                            FrontendCommand(config))>>
       IN
       \E ok \in BOOLEAN :
         IF ok
         THEN /\ dirs' = dirs \cup ToolDirs(config)
              /\ files' = files \cup ToolFiles(config)
              /\ IF ~IsNextJS(config)
                 THEN Proceed("setupTailwind", {"frontend"}, {}, l)
                 ELSE Proceed(AfterFrontend(config), {}, {"frontend"},
                              Append(l, End("frontend")))
              /\ UNCHANGED <<packageJson, envFile>>
         ELSE Throw({"frontend"},
                    Err("SubprocessError", FrontendCommand(config)), l)
    /\ UNCHANGED <<config, tailwind, contents>>

\* config.frontendFramework.startsWith throws inside the try block when the
\* framework is missing, before any command is run
SetupFrontend ==
    /\ pc = "setupFrontend"
    /\ LET l == log \o <<Begin("frontend"),
                         Ev("exec", Dirname(FrontendPath(config)),
                            FrontendCommand(config))>>
       IN
       \E ok \in BOOLEAN :
         IF config.frontendFramework = Undefined
         THEN Throw({"frontend"}, Err("TypeError", "frontendFramework"),
                    Append(log, Begin("frontend")))
         ELSE IF ok
         THEN /\ dirs' = dirs \cup ToolDirs(config)
              /\ files' = files \cup ToolFiles(config)
              /\ IF ~IsNextJS(config) /\ config.includeTailwind
                 THEN Proceed("setupTailwind", {"frontend"}, {}, l)
                 ELSE Proceed(AfterFrontend(config), {}, {"frontend"},
                              Append(l, End("frontend")))
              /\ UNCHANGED <<packageJson, envFile>>
         ELSE Throw({"frontend"},
                    Err("SubprocessError", FrontendCommand(config)), l)
    /\ UNCHANGED <<config, tailwind, contents>>

\* Styling Orchestrator: package.json, the vite config and src/index.css of
\* the project the external tool has made
SetupTailwind ==
    /\ pc = "setupTailwind"
    /\ LET pkg == Join(FrontendPath(config), "package.json")
           css == Join(FrontendPath(config), "src/index.css")
           l == log \o <<Begin("styling"), Ev("write", pkg, ""),
                         Ev("write", ViteConfigPath(config), ""),
                         Ev("write", css, "")>>
       IN
       \E ok \in BOOLEAN :
         IF ok /\ pkg \in files
         THEN /\ files' = files \cup {pkg, ViteConfigPath(config), css}
              /\ Proceed(AfterFrontend(config), {}, {"styling", "frontend"},
                         l \o <<End("styling"), End("frontend")>>)
              /\ UNCHANGED <<dirs, packageJson, envFile>>
         ELSE Throw({"styling", "frontend"},
                    Err("FilesystemError", pkg),
                    Append(log, Begin("styling")))
    /\ UNCHANGED <<config, tailwind, contents>>

-----------------------------------------------------------------------------
(* Backend Orchestrator *)

\* spinner start and fs.ensureDir(backendPath)
SetupBackend ==
    /\ pc = "setupBackend"
    /\ LET l == log \o <<Begin("backend"),
                         Ev("mkdir", BackendPath(config), "")>>
       IN
       \E ok \in BOOLEAN :
         IF ok
         THEN /\ dirs' = dirs \cup EnsureDirSet(BackendPath(config))
              /\ Proceed("writePackageJson", {"backend"}, {}, l)
              /\ UNCHANGED <<files, packageJson, envFile>>
         ELSE Throw({"backend"},
                    Err("FilesystemError", BackendPath(config)), l)
    /\ UNCHANGED <<config, tailwind, contents>>

\* createPackageJson and fs.writeJson(backendPath/package.json)
WritePackageJson ==
    /\ pc = "writePackageJson"
    /\ LET p == Join(BackendPath(config), "package.json")
           l == Append(log, Ev("write", p, ""))
       IN
       \E ok \in BOOLEAN :
         IF config.backendTemplate = Undefined
         THEN Throw({"backend"}, Err("TypeError", "backendTemplate"), log)
         ELSE IF ok /\ Dirname(p) \in dirs
         THEN /\ files' = files \cup {p}
              /\ packageJson' = <<createPackageJson(ProjectPath, config)>>
              /\ Proceed("createBackendFolders", {}, {}, l)
              /\ UNCHANGED <<dirs, envFile>>
         ELSE Throw({"backend"}, Err("FilesystemError", p), l)
    /\ UNCHANGED <<config, tailwind, contents>>

\* Promise.all over fs.ensureDir of every folder: the calls are issued in the
\* order of the array; when one of them fails the others still complete
createBackendFolders ==
    /\ pc = "createBackendFolders"
    /\ LET paths == BackendFolderPaths(BackendPath(config), config)
           l == log \o [i \in 1..Len(paths) |-> Ev("mkdir", paths[i], "")]
       IN
       \E bad \in 0..Len(paths) :
         /\ dirs' = dirs \cup UNION {EnsureDirSet(paths[i]) :
                                       i \in (1..Len(paths)) \ {bad}}
         /\ IF bad = 0
            THEN /\ Proceed("createServerFile", {}, {}, l)
                 /\ UNCHANGED <<files, packageJson, envFile>>
            ELSE /\ pc' = "failed"
                 /\ status' = [status EXCEPT !["backend"] = "failed"]
                 /\ cause' = Err("FilesystemError", paths[bad])
                 /\ result' = "rejected"
                 /\ error' = Rethrow(Err("FilesystemError", paths[bad]))
                 /\ log' = l
                 /\ UNCHANGED <<files, packageJson, envFile>>
    /\ UNCHANGED <<config, tailwind, contents>>

\* whether setupBackend calls createDatabaseFiles
NeedsDatabaseFiles(c) == c.database # Undefined /\ c.database # "none"

AfterServerFile(c) ==
    IF NeedsDatabaseFiles(c) THEN "createDatabaseFiles"
    ELSE "createSampleFiles"

\* the entry file
createServerFile ==
    /\ pc = "createServerFile"
    /\ WriteFile(ServerPath(BackendPath(config), config),
                 ServerTemplate(config), {"backend"},
                 IF IsTypeScript(config) THEN "writeTsConfig"
                 ELSE AfterServerFile(config),
                 {}, {}, <<>>, <<>>)
    /\ UNCHANGED <<tailwind, config, dirs, packageJson, envFile>>

\* tsconfig.json, for a TypeScript backend
WriteTsConfig ==
    /\ pc = "writeTsConfig"
    /\ WriteFile(TsConfigPath(BackendPath(config)), TsConfig(config),
                 {"backend"},
                 AfterServerFile(config), {}, {}, <<>>, <<>>)
    /\ UNCHANGED <<tailwind, config, dirs, packageJson, envFile>>

\* the database-connection file
createDatabaseFiles ==
    /\ pc = "createDatabaseFiles"
    /\ IF config.database \in {"postgresql", "mongodb"}
       THEN WriteFile(DbFilePath(BackendPath(config), config),
                      DbTemplate(config), {"backend"},
                      "createSampleFiles", {}, {}, <<>>, <<>>)
       ELSE /\ Proceed("createSampleFiles", {}, {}, log)
            /\ UNCHANGED <<files, contents>>
    /\ UNCHANGED <<tailwind, config, dirs, packageJson, envFile>>

\* whether createSampleFiles writes a third file after controller and routes
HasSampleDbFile(c) == c.database = "postgresql" \/ c.database = "mongodb"

SampleDbFilePath(backendPath, c) ==
    IF c.database = "postgresql" THEN QueriesPath(backendPath, c)
    ELSE ModelPath(backendPath, c)

\* createSampleFiles: the sample controller
createSampleFiles ==
    /\ pc = "createSampleFiles"
    /\ WriteFile(ControllerPath(BackendPath(config), config),
                 ControllerTemplate(DatabaseOrNone(config)), {"backend"},
                 "createSampleRoutes", {}, {}, <<>>, <<>>)
    /\ UNCHANGED <<tailwind, config, dirs, packageJson, envFile>>

\* createSampleFiles: the sample routes
CreateSampleRoutes ==
    /\ pc = "createSampleRoutes"
    /\ IF HasSampleDbFile(config)
       THEN WriteFile(RoutesPath(BackendPath(config), config),
                      RoutesTemplate, {"backend"},
                      "createSampleDbFile", {}, {}, <<>>, <<>>)
       ELSE WriteFile(RoutesPath(BackendPath(config), config),
                      RoutesTemplate, {"backend"},
                      AfterBackend(config), {}, {"backend"},
                      <<>>, <<End("backend")>>)
    /\ UNCHANGED <<tailwind, config, dirs, packageJson, envFile>>

\* createSampleFiles: the queries file (postgresql) or the model file (mongodb)
CreateSampleDbFile ==
    /\ pc = "createSampleDbFile"
    /\ WriteFile(SampleDbFilePath(BackendPath(config), config),
                 SampleDbTemplate(config), {"backend"},
                 AfterBackend(config), {}, {"backend"},
                 <<>>, <<End("backend")>>)
    /\ UNCHANGED <<tailwind, config, dirs, packageJson, envFile>>

-----------------------------------------------------------------------------
(* Features Orchestrator *)

setupAdditionalFeatures ==
    /\ pc = "setupAdditionalFeatures"
    /\ IF WritesEnv(config)
       THEN LET l == log \o <<Begin("features"),
                              Ev("write", EnvPath(config), "")>>
            IN
            \E ok \in BOOLEAN :
              IF ok /\ Dirname(EnvPath(config)) \in dirs
              THEN /\ files' = files \cup {EnvPath(config)}
                   /\ envFile' = EnvContent(config)
                   /\ Proceed(AfterFeatures(config), {}, {"features"},
                              Append(l, End("features")))
                   /\ UNCHANGED <<dirs, packageJson>>
              ELSE Throw({"features"},
                         Err("FilesystemError", EnvPath(config)), l)
       ELSE /\ Proceed(AfterFeatures(config), {}, {"features"},
                       log \o <<Begin("features"), End("features")>>)
            /\ UNCHANGED <<dirs, files, packageJson, envFile>>
    /\ UNCHANGED <<config, tailwind, contents>>

-----------------------------------------------------------------------------
(* Dependency installation *)

InstallCommand == "npm install"

\* the first (for fullstack) or only execSync of installDependencies
installDependencies ==
    /\ pc = "installDependencies"
    /\ LET cwd == IF config.projectType = "fullstack"
                  THEN Join(ProjectPath, "frontend")
                  ELSE ProjectPath
           l == log \o <<Begin("install"), Ev("exec", cwd, InstallCommand)>>
       IN
       \E ok \in BOOLEAN :
         IF ok
         THEN IF config.projectType = "fullstack"
              THEN Proceed("installBackend", {"install"}, {}, l)
              ELSE Proceed(AfterInstall(config), {}, {"install"},
                           Append(l, End("install")))
         ELSE /\ Throw({"install"}, Err("SubprocessError", cwd), l)
    /\ UNCHANGED <<tailwind, contents, config, dirs, files, packageJson, envFile>>

\* variant: a failed install of the backend is tried once more
InstallBackendRetried ==
    /\ pc = "installBackend"
    /\ LET cwd == Join(ProjectPath, "backend")
           l == Append(log, Ev("exec", cwd, InstallCommand))
       IN
       \E ok \in BOOLEAN :
         IF ok
         THEN Proceed(AfterInstall(config), {}, {"install"},
                      Append(l, End("install")))
         ELSE Throw({"install"}, Err("SubprocessError", cwd),
                    Append(l, Ev("exec", cwd, InstallCommand)))
    /\ UNCHANGED <<tailwind, contents, config, dirs, files, packageJson, envFile>>

\* the second execSync of installDependencies, for fullstack
InstallBackend ==
    /\ pc = "installBackend"
    /\ LET cwd == Join(ProjectPath, "backend")
           l == Append(log, Ev("exec", cwd, InstallCommand))
       IN
       \E ok \in BOOLEAN :
         IF ok
         THEN Proceed(AfterInstall(config), {}, {"install"},
                      Append(l, End("install")))
         ELSE Throw({"install"}, Err("SubprocessError", cwd), l)
    /\ UNCHANGED <<tailwind, contents, config, dirs, files, packageJson, envFile>>

-----------------------------------------------------------------------------
(* README generation, and the end of the run *)

ReadmePath == Join(ProjectPath, "README.md")

\* the template literal reads config.frontendFramework.startsWith unless the
\* type is "backend" and config.backendTemplate.includes unless it is "frontend"
ReadmeThrows(c) ==
    \/ c.projectType # "backend" /\ c.frontendFramework = Undefined
    \/ c.projectType # "frontend" /\ c.backendTemplate = Undefined

generateReadme ==
    /\ pc = "generateReadme"
    /\ LET l == log \o <<Begin("readme"), Ev("write", ReadmePath, "")>> IN
       \E ok \in BOOLEAN :
         IF ReadmeThrows(config)
         THEN /\ Throw({}, Err("TypeError", "generateReadme"),
                       Append(log, Begin("readme")))
              /\ UNCHANGED contents
         ELSE IF ok /\ Dirname(ReadmePath) \in dirs
         THEN /\ files' = files \cup {ReadmePath}
              /\ contents' = Assign(contents, ReadmePath, Readme(config))
              /\ pc' = "done"
              /\ result' = "resolved"
              /\ log' = Append(l, End("readme"))
              /\ UNCHANGED <<dirs, packageJson, envFile, status, cause, error>>
         ELSE /\ Throw({}, Err("FilesystemError", ReadmePath), l)
              /\ UNCHANGED contents
    /\ UNCHANGED <<config, tailwind>>

Next ==
    \/ EnsureProjectDir
    \/ SetupFrontend
    \/ SetupTailwind
    \/ SetupBackend
    \/ WritePackageJson
    \/ createBackendFolders
    \/ createServerFile
    \/ WriteTsConfig
    \/ createDatabaseFiles
    \/ createSampleFiles
    \/ CreateSampleRoutes
    \/ CreateSampleDbFile
    \/ setupAdditionalFeatures
    \/ installDependencies
    \/ InstallBackend
    \/ generateReadme

Spec == Init /\ [][Next]_vars

-----------------------------------------------------------------------------
(* setupTailwind run repeatedly on a project whose files are given *)

MaxRuns == 2
MaxCssPieces == 2
MaxConfigPieces == 3

\* the texts made of at most n of the pieces
RECURSIVE Texts(_, _)
Texts(pieces, n) ==
    IF n = 0 THEN {""}
    ELSE Texts(pieces, n - 1)
         \cup {t \o p : t \in Texts(pieces, n - 1), p \in pieces}

CountOf(s, sub) ==
    Cardinality({i \in 1..Len(s) :
                    /\ i + Len(sub) - 1 <= Len(s)
                    /\ SubSeq(s, i, i + Len(sub) - 1) = sub})

CssPieces ==
    {"@import \"tailwindcss\";\n",
     ":root { font-family: system-ui; }\n",
     "body { margin: 0; }\n"}

\* src/index.css as the Vite template or an earlier run can have left it:
\* absent, without the Tailwind import, or with it
CssFiles ==
    {<<>>} \cup {<<t>> : t \in {u \in Texts(CssPieces, MaxCssPieces) :
                                  CountOf(u, CssMarker) <= 1}}

ConfigPieces ==
    {"import { defineConfig } from 'vite'\n",
     "import react from '@vitejs/plugin-react'\n",
     "import tailwindcss from '@tailwindcss/vite'\n",
     "export default {\n  plugins: [react()],\n}\n"}

\* vite.config.js / vite.config.ts: absent or any text of the pieces
ConfigFiles ==
    {<<>>} \cup {<<t>> : t \in Texts(ConfigPieces, MaxConfigPieces)}

\* the configuration of a Vite frontend with Tailwind
TailwindConfig ==
    [projectType |-> "frontend", frontendFramework |-> "react",
     includeTailwind |-> TRUE, backendTemplate |-> Undefined,
     database |-> "none", additionalFeatures |-> <<>>,
     installDependencies |-> FALSE]

InitTailwind ==
    /\ config = TailwindConfig
    /\ pc = "tailwind"
    /\ dirs = {"."} \cup ToolDirs(TailwindConfig)
    /\ files = {Join(FrontendPath(TailwindConfig), "package.json")}
    /\ packageJson = <<>>
    /\ envFile = <<>>
    /\ log = <<>>
    /\ status = [o \in Orchestrators |-> "pending"]
    /\ result = "pending"
    /\ cause = NoError
    /\ error = NoError
    /\ tailwind \in {TailwindState(css, cfg) :
                        css \in CssFiles, cfg \in ConfigFiles}
    /\ contents = NoContents

\* one run of setupTailwind: package.json, the vite config, src/index.css
RunSetupTailwind ==
    /\ pc = "tailwind"
    /\ tailwind.runs < MaxRuns
    /\ LET css == RewriteCss(tailwind.css)
           cfg == RewriteViteConfig(tailwind.cfg)
       IN  tailwind' =
             [tailwind EXCEPT
                !.pkg = @ \cup {"tailwindcss", "@tailwindcss/vite"},
                !.cfg = cfg,
                !.css = css,
                !.cfg1 = IF tailwind.runs = 0 THEN cfg ELSE @,
                !.css1 = IF tailwind.runs = 0 THEN css ELSE @,
                !.runs = @ + 1]
    /\ status' = [status EXCEPT !["styling"] = "succeeded"]
    /\ UNCHANGED <<config, contents, pc, dirs, files, packageJson, envFile, log,
                   result, cause, error>>

NextTailwind == RunSetupTailwind

SpecTailwind == InitTailwind /\ [][NextTailwind]_vars

-----------------------------------------------------------------------------
(* scaffold called with any record, the malformed ones included *)

\* a project type that none of the comparisons of scaffold matches
OtherProjectType == "other"

AnyConfigs ==
    [projectType : ProjectTypes \cup {OtherProjectType},
     frontendFramework : FrontendFrameworks \cup {Undefined},
     includeTailwind : BOOLEAN,
     backendTemplate : BackendTemplates \cup {Undefined},
     database : Databases,
     additionalFeatures : FeatureLists,
     installDependencies : BOOLEAN]

Malformed(c) ==
    \/ c.projectType \notin ProjectTypes
    \/ HasFrontend(c) /\ c.frontendFramework = Undefined
    \/ HasBackend(c) /\ c.backendTemplate = Undefined

MalformedConfigs == {c \in AnyConfigs : Malformed(c)}

InitAny ==
    /\ config \in ValidConfigs \cup MalformedConfigs
    /\ pc = "scaffold"
    /\ dirs = {"."}
    /\ files = {}
    /\ packageJson = <<>>
    /\ envFile = <<>>
    /\ log = <<>>
    /\ status = [o \in Orchestrators |-> "pending"]
    /\ result = "pending"
    /\ cause = NoError
    /\ error = NoError
    /\ tailwind = TailwindIdle
    /\ contents = NoContents

SpecAny == InitAny /\ [][Next]_vars

-----------------------------------------------------------------------------
(* The collector of index.js: inquirer.prompt asks its questions in order,  *)
(* skips a question whose `when` is false, and the answers object is handed *)
(* to scaffold as it is.  While the prompt runs, config is the answers      *)
(* object so far.                                                           *)

NoAnswers == <<>>

ConfigFields ==
    {"projectType", "frontendFramework", "includeTailwind", "backendTemplate",
     "database", "additionalFeatures", "installDependencies"}

\* reading a property of an object: undefined when the object has none
Read(obj, k) == IF k \in DOMAIN obj THEN obj[k] ELSE Undefined

\* variant: the framework question asked whatever the project type
WhenFrontendAlways(answers) == TRUE

\* when: of the questions frontendFramework and includeTailwind
WhenFrontend(answers) ==
    answers["projectType"] = "fullstack" \/ answers["projectType"] = "frontend"

\* when: of the question backendTemplate
WhenBackend(answers) ==
    answers["projectType"] = "fullstack" \/ answers["projectType"] = "backend"

\* one question: asked and answered with one of its choices, or skipped
Question(name, when, choices, nextPc) ==
    /\ pc' = nextPc
    /\ IF when
       THEN \E v \in choices : config' = Assign(config, name, v)
       ELSE UNCHANGED config
    /\ UNCHANGED <<dirs, files, packageJson, envFile, log, status, result,
                   cause, error, tailwind, contents>>

PromptProjectType ==
    /\ pc = "promptProjectType"
    /\ Question("projectType", TRUE, ProjectTypes,
                "promptFrontendFramework")

PromptFrontendFramework ==
    /\ pc = "promptFrontendFramework"
    /\ Question("frontendFramework",
                WhenFrontend(config), FrontendFrameworks, "promptIncludeTailwind")

PromptIncludeTailwind ==
    /\ pc = "promptIncludeTailwind"
    /\ Question("includeTailwind",
                WhenFrontend(config), BOOLEAN, "promptBackendTemplate")

PromptBackendTemplate ==
    /\ pc = "promptBackendTemplate"
    /\ Question("backendTemplate",
                WhenBackend(config), BackendTemplates, "promptAdditionalFeatures")

PromptAdditionalFeatures ==
    /\ pc = "promptAdditionalFeatures"
    /\ Question("additionalFeatures", TRUE,
                FeatureLists, "promptInstallDependencies")

PromptInstallDependencies ==
    /\ pc = "promptInstallDependencies"
    /\ Question("installDependencies", TRUE,
                BOOLEAN, "callScaffold")

\* await scaffold(projectName, answers): config is what scaffold reads of it
CallScaffold ==
    /\ pc = "callScaffold"
    /\ pc' = "scaffold"
    /\ config' = [k \in ConfigFields |-> Read(config, k)]
    /\ UNCHANGED <<dirs, files, packageJson, envFile, log, status, result,
                   cause, error, tailwind, contents>>

InitCollector ==
    /\ config = NoAnswers
    /\ pc = "promptProjectType"
    /\ dirs = {"."}
    /\ files = {}
    /\ packageJson = <<>>
    /\ envFile = <<>>
    /\ log = <<>>
    /\ status = [o \in Orchestrators |-> "pending"]
    /\ result = "pending"
    /\ cause = NoError
    /\ error = NoError
    /\ tailwind = TailwindIdle
    /\ contents = NoContents

NextCollector ==
    \/ PromptProjectType
    \/ PromptFrontendFramework
    \/ PromptIncludeTailwind
    \/ PromptBackendTemplate
    \/ PromptAdditionalFeatures
    \/ PromptInstallDependencies
    \/ CallScaffold

SpecCollector == InitCollector /\ [][NextCollector]_vars

-----------------------------------------------------------------------------
(* scaffold called with a database the template selection does not know *)

OtherDatabase == "sqlite"

AnyDatabaseConfigs ==
    {[c EXCEPT !.database = d] :
        c \in ValidConfigs, d \in Databases \cup {OtherDatabase}}

InitAnyDatabase ==
    /\ config \in AnyDatabaseConfigs
    /\ pc = "scaffold"
    /\ dirs = {"."}
    /\ files = {}
    /\ packageJson = <<>>
    /\ envFile = <<>>
    /\ log = <<>>
    /\ status = [o \in Orchestrators |-> "pending"]
    /\ result = "pending"
    /\ cause = NoError
    /\ error = NoError
    /\ tailwind = TailwindIdle
    /\ contents = NoContents

SpecAnyDatabase == InitAnyDatabase /\ [][Next]_vars

-----------------------------------------------------------------------------
(* Properties *)

Keys(obj) == DOMAIN obj
Written(p) == p \in files
ManifestWritten == packageJson # <<>>
Manifest == packageJson[1]
HasFeature(f) == SeqIncludes(config.additionalFeatures, f)

\* positions of the log
Pos == 1..Len(log)
IsBegin(i) == log[i].op = "begin"
IsEnd(i) == log[i].op = "end"
IsWrite(i) == log[i].op = "write"
IsExec(i) == log[i].op = "exec"
IsMkdir(i) == log[i].op = "mkdir"
Began(stage) == \E i \in Pos : log[i] = Begin(stage)
Ended(stage) == \E i \in Pos : log[i] = End(stage)

\* the stages of the coordinator, in the order of the claim
StageRank ==
    [frontend |-> 1, backend |-> 2, features |-> 3, install |-> 4,
     readme |-> 5]
Stages == DOMAIN StageRank

\* whether the configuration asks for the stage
Applicable(stage) ==
    CASE stage = "frontend" -> config.projectType \in {"fullstack", "frontend"}
      [] stage = "backend" -> config.projectType \in {"fullstack", "backend"}
      [] stage = "features" -> Len(config.additionalFeatures) > 0
      [] stage = "install" -> config.installDependencies
      [] stage = "readme" -> TRUE

(* C1: in the manifest written for a backend no package name is a key of    *)
(* both dependencies and devDependencies, and every script is a non-empty   *)
(* string.                                                                  *)
C1_ManifestDisjointAndScriptsNonEmpty ==
    ManifestWritten =>
        /\ Keys(Manifest.dependencies) \cap Keys(Manifest.devDependencies) = {}
        /\ \A k \in Keys(Manifest.scripts) : Len(Manifest.scripts[k]) > 0

C1_Witness ==
    /\ ManifestWritten
    /\ config.backendTemplate = "express-ts"
    /\ config.database = "postgresql"
    /\ HasFeature("env")
    /\ "dotenv" \in Keys(Manifest.dependencies)
    /\ "build" \in Keys(Manifest.scripts)

Installs(cwd) == {i \in Pos : log[i] = Ev("exec", cwd, InstallCommand)}
AllInstalls == {i \in Pos : IsExec(i) /\ log[i].arg = InstallCommand}

InstallTargets ==
    IF config.projectType = "fullstack"
    THEN {Join(ProjectPath, "frontend"), Join(ProjectPath, "backend")}
    ELSE {ProjectPath}

InstallCounts ==
    /\ \A i \in AllInstalls : log[i].target \in InstallTargets
    /\ \A cwd \in InstallTargets : Cardinality(Installs(cwd)) <= 1
    /\ Ended("install") =>
          \A cwd \in InstallTargets : Cardinality(Installs(cwd)) = 1
    /\ ~config.installDependencies => AllInstalls = {}
    /\ (pc = "done" /\ config.installDependencies) => Ended("install")

C4_FailureIsTerminal ==
    [][/\ pc # "failed"
       /\ cause' # NoError =>
            /\ pc' = "failed"
            /\ result' = "rejected"
            /\ error' = cause'
            /\ ~Began("readme")' \/ cause'.at = ReadmePath
            /\ ReadmePath \notin files']_vars

C4_Witness ==
    /\ pc = "failed"
    /\ result = "rejected"
    /\ error = cause
    /\ cause.kind = "SubprocessError"
    /\ status["install"] = "failed"
    /\ status["backend"] = "succeeded"
    /\ ~Written(ReadmePath)

\* the write at position j of the log goes into the backend target
InBackendTarget(j) ==
    /\ config.projectType \in {"fullstack", "backend"}
    /\ StartsWith(log[j].target, BackendPath(config) \o "/")

(* C5: every file written into the backend target is written after the      *)
(* directory that directly contains it was created in the same run.         *)
C5_DirectoryBeforeFile ==
    \A j \in Pos :
        (IsWrite(j) /\ InBackendTarget(j)) =>
            \E i \in 1..(j - 1) :
                /\ IsMkdir(i)
                /\ Dirname(log[j].target) \in EnsureDirSet(log[i].target)

C5_Witness ==
    /\ pc = "done"
    /\ config.projectType = "fullstack"
    /\ config.backendTemplate = "express-ts"
    /\ config.database = "mongodb"
    /\ Written(DbFilePath(BackendPath(config), config))
    /\ Written(ModelPath(BackendPath(config), config))
    /\ Written(TsConfigPath(BackendPath(config)))
    /\ Written(EnvPath(config))

(* C6: a successful run that generates a backend and has the env feature or *)
(* a database other than none has written the environment template, also    *)
(* when additionalFeatures is empty.                                        *)
C6_EnvTemplateWritten ==
    (/\ pc = "done"
     /\ config.projectType \in {"fullstack", "backend"}
     /\ (HasFeature("env") \/ config.database # "none"))
        => Written(EnvPath(config))

\* the data-layer and sample files of a backend
DataLayerFiles ==
    LET b == BackendPath(config) IN
    {Join(Join(b, d), f) :
        d \in {"db", "src/db"},
        f \in {"db.mjs", "db.mts", "database.mjs", "database.mts"}}
    \cup {ControllerPath(b, config), RoutesPath(b, config),
          QueriesPath(b, config), ModelPath(b, config)}

(* C7: with database none no database-connection, model, query, route or    *)
(* controller file is written.                                              *)
C7_NoDataLayerWithoutDatabase ==
    (/\ config.projectType \in {"fullstack", "backend"}
     /\ config.database = "none")
        => files \cap DataLayerFiles = {}

(* C8: the dependencies of the manifest are exactly express and cors, plus  *)
(* dotenv iff the env feature is selected or the database is not none, plus *)
(* mongoose iff mongodb, plus pg, bcryptjs and jsonwebtoken iff postgresql. *)
C8_DependenciesExact ==
    ManifestWritten =>
        Keys(Manifest.dependencies) =
            {"express", "cors"}
            \cup (IF HasFeature("env") \/ config.database # "none"
                  THEN {"dotenv"} ELSE {})
            \cup (IF config.database = "mongodb" THEN {"mongoose"} ELSE {})
            \cup (IF config.database = "postgresql"
                  THEN {"pg", "bcryptjs", "jsonwebtoken"} ELSE {})

C8_Witness ==
    /\ ManifestWritten
    /\ config.database = "postgresql"
    /\ ~HasFeature("env")
    /\ Keys(Manifest.dependencies) =
          {"express", "cors", "dotenv", "pg", "bcryptjs", "jsonwebtoken"}

(* C9: the scripts of the manifest contain build iff the backend template   *)
(* is express-ts; for express-js they are exactly dev and start.            *)
C9_BuildScriptIffTypeScript ==
    ManifestWritten =>
        /\ "build" \in Keys(Manifest.scripts)
              <=> config.backendTemplate = "express-ts"
        /\ config.backendTemplate = "express-js"
              => Keys(Manifest.scripts) = {"dev", "start"}

C9_Witness ==
    /\ ManifestWritten
    /\ config.backendTemplate = "express-js"
    /\ Keys(Manifest.scripts) = {"dev", "start"}

(* C10: a TypeScript backend has typescript and tsx and not nodemon among   *)
(* its devDependencies; a JavaScript backend has nodemon and neither        *)
(* typescript nor tsx.                                                      *)
C10_DevRunnersExclusive ==
    ManifestWritten =>
        IF config.backendTemplate = "express-ts"
        THEN /\ {"typescript", "tsx"} \subseteq Keys(Manifest.devDependencies)
             /\ "nodemon" \notin Keys(Manifest.devDependencies)
        ELSE /\ "nodemon" \in Keys(Manifest.devDependencies)
             /\ {"typescript", "tsx"} \cap Keys(Manifest.devDependencies) = {}

\* the runtime packages that ship no type declarations of their own
NeedsTypes == {"express", "cors", "pg", "bcryptjs", "jsonwebtoken"}

(* C11: for a TypeScript backend every runtime dependency of the manifest   *)
(* that ships no type declarations has its @types package among the         *)
(* devDependencies.                                                         *)
C11_TypesForEveryDependency ==
    (ManifestWritten /\ config.backendTemplate = "express-ts") =>
        \A d \in Keys(Manifest.dependencies) \cap NeedsTypes :
            ("@types/" \o d) \in Keys(Manifest.devDependencies)

\* the directories handed to fs.ensureDir by createBackendFolders
PlannedPaths ==
    {BackendFolderPaths(BackendPath(config), config)[i] :
        i \in 1..Len(Folders(config))}

\* the paths of a set of roles, nested under src for a TypeScript backend
RolePaths(roles) ==
    {Join(Join(BackendPath(config),
               IF config.backendTemplate = "express-ts" THEN "src" ELSE ""),
          r) : r \in roles}

BaseRoles == {"routes", "controllers", "middleware", "utils"}

\* the folders have been created in this run
FoldersCreated ==
    pc \in {"createServerFile", "writeTsConfig", "createDatabaseFiles",
            "createSampleFiles", "createSampleRoutes", "createSampleDbFile",
            "done"}
    /\ config.projectType \in {"fullstack", "backend"}

\* the directories created by the mkdir events that follow the backend root
CreatedByPlanner ==
    {log[i].target : i \in {j \in Pos : IsMkdir(j)}}
        \ {ProjectPath, BackendPath(config)}

(* C12 as stated: the planned directories are exactly routes, controllers,  *)
(* middleware, utils, plus models for mongodb, plus queries and db for      *)
(* postgresql; all under src/ for a TypeScript backend, else under the      *)
(* backend root.                                                            *)
C12_PlannedDirectoriesAsStated ==
    FoldersCreated =>
        CreatedByPlanner =
            RolePaths(BaseRoles
                \cup (IF config.database = "mongodb" THEN {"models"} ELSE {})
                \cup (IF config.database = "postgresql"
                      THEN {"queries", "db"} ELSE {}))

(* C12 as amended: the planned directories are routes, controllers,         *)
(* middleware, utils, plus models and db for mongodb, plus queries and db   *)
(* for postgresql, each under src/ for a TypeScript backend and under the   *)
(* backend root otherwise; a TypeScript backend plans the source root src   *)
(* itself as well, and nothing else is planned.                             *)
C12_PlannedDirectories ==
    FoldersCreated =>
        /\ CreatedByPlanner = PlannedPaths
        /\ PlannedPaths =
             RolePaths(BaseRoles
                \cup (IF config.database = "mongodb"
                      THEN {"models", "db"} ELSE {})
                \cup (IF config.database = "postgresql"
                      THEN {"queries", "db"} ELSE {}))
             \cup (IF config.backendTemplate = "express-ts"
                   THEN {Join(BackendPath(config), "src")} ELSE {})

C12_Witness ==
    /\ FoldersCreated
    /\ config.backendTemplate = "express-ts"
    /\ config.database = "mongodb"
    /\ Join(BackendPath(config), "src/db") \in CreatedByPlanner
    /\ Join(BackendPath(config), "src") \in CreatedByPlanner

\* the positions of the mkdir events issued by createBackendFolders
PlannerPos ==
    {i \in Pos : IsMkdir(i)
                 /\ log[i].target \notin {ProjectPath, BackendPath(config)}}

(* C13: in the order in which the backend directories are planned, every    *)
(* directory comes after its parent: src before every src/<role>.           *)
C13_ParentsPrecedeChildren ==
    \A i \in PlannerPos : \A j \in PlannerPos :
        (log[j].target = Dirname(log[i].target)) => j < i

\* the positions of the log that lie inside the frontend stage
InFrontendStage(i) ==
    /\ \E b \in 1..(i - 1) : log[b] = Begin("frontend")
    /\ ~\E e \in 1..i : log[e] = End("frontend")

\* the external commands other than the package manager's
ToolExecs == {i \in Pos : IsExec(i) /\ log[i].arg # InstallCommand}

NextFamily == config.frontendFramework \in {"nextjs", "nextjs-ts"}
ViteFamily == config.frontendFramework \in {"react", "react-ts"}

(* C14: for nextjs and nextjs-ts the frontend stage issues exactly one      *)
(* external command, create-next-app, in the parent directory of the        *)
(* frontend target, with --ts iff nextjs-ts (else --js) and --tailwind iff  *)
(* includeTailwind (else --no-tailwind); it never starts the Styling        *)
(* Orchestrator and writes no file itself.                                  *)
C14_NextJsDelegatesToTool ==
    (NextFamily /\ Began("frontend")) =>
        /\ Cardinality(ToolExecs) = 1
        /\ \A i \in ToolExecs :
             /\ log[i - 1] = Begin("frontend")
             /\ log[i].target = Dirname(FrontendPath(config))
             /\ StartsWith(log[i].arg,
                           "npx create-next-app@latest "
                              \o Basename(FrontendPath(config)) \o " ")
             /\ Includes(log[i].arg, " --ts ")
                   <=> config.frontendFramework = "nextjs-ts"
             /\ Includes(log[i].arg, " --js ")
                   <=> config.frontendFramework # "nextjs-ts"
             /\ Includes(log[i].arg, " --tailwind ") <=> config.includeTailwind
             /\ Includes(log[i].arg, " --no-tailwind ")
                   <=> ~config.includeTailwind
        /\ ~Began("styling")
        /\ status["styling"] = "pending"
        /\ \A i \in Pos : IsWrite(i) => ~InFrontendStage(i)

C14_Witness ==
    /\ NextFamily
    /\ config.frontendFramework = "nextjs-ts"
    /\ config.includeTailwind
    /\ config.projectType = "fullstack"
    /\ Ended("frontend")
    /\ pc = "done"

(* C15: for react and react-ts the frontend stage first runs the Vite tool  *)
(* with the template equal to frontendFramework; the Styling Orchestrator   *)
(* starts only after that command has succeeded, and runs iff               *)
(* includeTailwind; when the tool fails, styling is never started and the   *)
(* frontend orchestrator ends failed.                                       *)
C15_ViteThenStyling ==
    (ViteFamily /\ Began("frontend")) =>
        /\ Cardinality(ToolExecs) = 1
        /\ \A i \in ToolExecs :
             /\ log[i - 1] = Begin("frontend")
             /\ log[i] = Ev("exec", Dirname(FrontendPath(config)),
                            "npm create vite@latest "
                               \o Basename(FrontendPath(config))
                               \o " -- --template "
                               \o config.frontendFramework)
             /\ \A s \in Pos : log[s] = Begin("styling") => i < s
        /\ Began("styling") =>
             /\ config.includeTailwind
             /\ ToolFiles(config) \subseteq files
             /\ cause.kind # "SubprocessError" \/ status["install"] = "failed"
        /\ Ended("frontend") => (Ended("styling") <=> config.includeTailwind)
        /\ (status["frontend"] = "running") => config.includeTailwind
        /\ (cause = Err("SubprocessError", FrontendCommand(config))) =>
             /\ ~Began("styling")
             /\ status["frontend"] = "failed"
             /\ pc = "failed"

C15_Witness ==
    /\ ViteFamily
    /\ config.includeTailwind
    /\ Ended("styling")
    /\ Ended("frontend")
    /\ status["styling"] = "succeeded"

EnvWritten == envFile # <<>>
EnvVars == {envFile[i] : i \in 1..Len(envFile)}
Occurrences(seq, x) == Cardinality({i \in 1..Len(seq) : seq[i] = x})

(* C18: the environment template defines NODE_ENV and PORT once each, the   *)
(* PostgreSQL variables iff database = postgresql, the MongoDB variables    *)
(* iff database = mongodb, JWT_SECRET iff auth is selected whatever the     *)
(* database, and no variable more than once.                                *)
C18_EnvContentIsUnion ==
    EnvWritten =>
        /\ Occurrences(envFile, "NODE_ENV") = 1
        /\ Occurrences(envFile, "PORT") = 1
        /\ IF config.database = "postgresql"
           THEN {"DB_HOST", "DB_PORT", "DB_NAME", "DB_USER", "DB_PASSWORD"}
                   \subseteq EnvVars
           ELSE {"DB_HOST", "DB_PORT", "DB_USER", "DB_PASSWORD"}
                   \cap EnvVars = {}
        /\ IF config.database = "mongodb"
           THEN {"MONGODB_URI", "DB_NAME"} \subseteq EnvVars
           ELSE "MONGODB_URI" \notin EnvVars
        /\ config.database = "none" => "DB_NAME" \notin EnvVars
        /\ "JWT_SECRET" \in EnvVars <=> HasFeature("auth")
        /\ \A v \in EnvVars : Occurrences(envFile, v) = 1

C18_Witness ==
    /\ EnvWritten
    /\ config.database = "none"
    /\ HasFeature("auth")
    /\ "JWT_SECRET" \in EnvVars
    /\ Written(EnvPath(config))

\* the writes of an environment template
EnvWrites == {j \in Pos : IsWrite(j) /\ Basename(log[j].target) = ".env.example"}

(* C19: the environment template is written to backend/.env.example for a   *)
(* fullstack project and to .env.example in the project root otherwise;     *)
(* when the project has a backend it is written after backend setup has     *)
(* ended, and the directory it goes into was created earlier in the run.    *)
C19_EnvTemplatePlacement ==
    \A j \in EnvWrites :
        /\ log[j].target =
              IF config.projectType = "fullstack"
              THEN ProjectPath \o "/backend/.env.example"
              ELSE ProjectPath \o "/.env.example"
        /\ config.projectType \in {"fullstack", "backend"}
              => \E i \in 1..(j - 1) : log[i] = End("backend")
        /\ \E i \in 1..(j - 1) :
              /\ IsMkdir(i)
              /\ Dirname(log[j].target) \in EnsureDirSet(log[i].target)
        /\ \E b \in 1..(j - 1) : log[b] = Begin("features")

C19_Witness ==
    /\ config.projectType = "fullstack"
    /\ Written(ProjectPath \o "/backend/.env.example")
    /\ EnvWrites # {}
    /\ Ended("features")

PluginEntry == "tailwindcss()"

(* C17: the rewrite of the vite config is idempotent for every initial      *)
(* config: every further run of setupTailwind leaves the config of the      *)
(* first run, and a config that had neither the tailwindcss() plugin entry  *)
(* nor the @tailwindcss/vite import has each at most once.                  *)
C17_ConfigRewriteIdempotent ==
    (pc = "tailwind" /\ tailwind.runs >= 1) =>
        /\ tailwind.cfg = tailwind.cfg1
        /\ (tailwind.cfg # <<>> /\ ~Includes(tailwind.cfg0[1], PluginEntry))
              => CountOf(tailwind.cfg[1], PluginEntry) <= 1
        /\ (tailwind.cfg # <<>>
              /\ ~Includes(tailwind.cfg0[1], "@tailwindcss/vite"))
              => CountOf(tailwind.cfg[1], "@tailwindcss/vite") <= 1

(* C20: a malformed configuration record is rejected with no output: the    *)
(* run makes no directory, writes no manifest, template file or README,     *)
(* runs no external command, and ends rejected.                             *)
C20_MalformedRejectedWithoutOutput ==
    Malformed(config) =>
        /\ dirs = {"."}
        /\ files = {}
        /\ packageJson = <<>>
        /\ envFile = <<>>
        /\ \A i \in 1..Len(log) : ~IsExec(i)
        /\ result # "resolved"
        /\ (pc \in {"done", "failed"} => result = "rejected")

-----------------------------------------------------------------------------
(* C21: a database outside none, mongodb and postgresql makes the backend   *)
(* orchestrator fail: it never reports success, and neither an entry file   *)
(* nor a sample controller is written for it.                               *)
C21_UnknownDatabaseFailsFast ==
    (HasBackend(config) /\ config.database \notin Databases) =>
        /\ status["backend"] # "succeeded"
        /\ ~Written(ServerPath(BackendPath(config), config))
        /\ ~Written(ControllerPath(BackendPath(config), config))

-----------------------------------------------------------------------------
ScenarioA ==
    /\ config.projectType = "backend"
    /\ config.backendTemplate = "express-js"
    /\ config.database = "mongodb"
    /\ config.additionalFeatures = <<"env">>

(* C22: Scenario A (backend, express-js, mongodb, features [env]): a run    *)
(* that succeeds leaves routes, controllers, middleware, utils, models and  *)
(* db at the backend root, a manifest whose dependencies hold express,      *)
(* cors, mongoose and dotenv once each, and an env template that defines    *)
(* PORT and MONGODB_URI.                                                    *)
C22_ScenarioA ==
    (ScenarioA /\ result = "resolved") =>
        /\ \A d \in {"routes", "controllers", "middleware", "utils",
                      "models", "db"} :
              Join(BackendPath(config), d) \in dirs
        /\ ManifestWritten
        /\ {"express", "cors", "mongoose", "dotenv"}
              \subseteq Keys(Manifest.dependencies)
        /\ {"express", "cors", "mongoose", "dotenv"}
              \cap Keys(Manifest.devDependencies) = {}
        /\ Written(EnvPath(config))
        /\ Occurrences(envFile, "PORT") = 1
        /\ Occurrences(envFile, "MONGODB_URI") = 1

C22_Witness ==
    /\ ScenarioA
    /\ result = "resolved"
    /\ Written(Join(ProjectPath, ".env.example"))
    /\ Join(ProjectPath, "db") \in dirs

-----------------------------------------------------------------------------
TsConfigWritten == Written(TsConfigPath(BackendPath(config)))
TsConfigOnDisk == contents[TsConfigPath(BackendPath(config))]

(* C23: tsconfig.json is at the backend root iff the backend is the          *)
(* TypeScript variant (never for JavaScript, always once a TypeScript        *)
(* backend is set up); its compiler options are target ES2020, strict,       *)
(* outDir ./dist and rootDir ./src whatever the database and the features;   *)
(* and the folders of a TypeScript backend are under src/, none of them at   *)
(* the backend root.                                                         *)
C23_TsConfigIffTypeScript ==
    /\ TsConfigWritten =>
          /\ HasBackend(config)
          /\ config.backendTemplate = "express-ts"
          /\ TsConfigOnDisk.compilerOptions.target = "ES2020"
          /\ TsConfigOnDisk.compilerOptions.strict = TRUE
          /\ TsConfigOnDisk.compilerOptions.outDir = "./dist"
          /\ TsConfigOnDisk.compilerOptions.rootDir = "./src"
    /\ (HasBackend(config) /\ status["backend"] = "succeeded") =>
          /\ TsConfigWritten <=> config.backendTemplate = "express-ts"
          /\ config.backendTemplate = "express-ts" =>
                \A r \in BaseRoles :
                    /\ Join(BackendPath(config), "src/" \o r) \in dirs
                    /\ Join(BackendPath(config), r) \notin dirs

C23_Witness ==
    /\ TsConfigWritten
    /\ config.database = "postgresql"
    /\ SeqIncludes(config.additionalFeatures, "auth")
    /\ status["backend"] = "succeeded"
    /\ Join(BackendPath(config), "src/queries") \in dirs

-----------------------------------------------------------------------------
\* what the log and the other state say of an orchestrator in each status
ReportConsistent(o) ==
    /\ status[o] = "pending" => ~Began(o) /\ ~Ended(o)
    /\ status[o] = "running" => Began(o) /\ ~Ended(o)
    /\ status[o] = "succeeded" =>
          /\ \E i \in Pos : \E j \in Pos :
                i < j /\ log[i] = Begin(o) /\ log[j] = End(o)
          /\ Cardinality({j \in Pos : log[j] = End(o)}) = 1
    /\ status[o] = "failed" =>
          /\ Began(o) /\ ~Ended(o)
          /\ pc = "failed" /\ result = "rejected"
          /\ error # NoError /\ error = cause

\* the steps an orchestrator that reports success has behind it
StepsCompleted ==
    /\ status["backend"] = "succeeded" =>
          /\ ManifestWritten
          /\ Written(ServerPath(BackendPath(config), config))
          /\ Written(RoutesPath(BackendPath(config), config))
    /\ status["frontend"] = "succeeded" =>
          /\ Written(Join(FrontendPath(config), "package.json"))
          /\ (~IsNextJS(config) /\ config.includeTailwind)
                => status["styling"] = "succeeded"
    /\ status["install"] = "succeeded" =>
          InstallTargets \subseteq {log[j].target : j \in AllInstalls}

(* C24: every orchestrator goes pending -> running -> succeeded or failed   *)
(* and stays there: success is reported once, after all of its steps;       *)
(* failure is reported once, together with the rejection of the run with    *)
(* the very error the step raised; and a failed styling orchestrator leaves *)
(* the frontend orchestrator failed as well.                                *)
C24_OrchestratorLifecycle ==
    [][/\ \A o \in Orchestrators :
            /\ status[o] = "running" =>
                  status'[o] \in {"running", "succeeded", "failed"}
            /\ status[o] \in {"succeeded", "failed"} =>
                  status'[o] = status[o]
            /\ status[o] # "pending" => status'[o] # "pending"
            /\ ReportConsistent(o)'
       /\ StepsCompleted'
       /\ status'["styling"] = "failed" => status'["frontend"] = "failed"
       /\ status'["styling"] = "running" => status'["frontend"] = "running"
      ]_vars

C24_Witness ==
    /\ status["styling"] = "failed"
    /\ status["frontend"] = "failed"
    /\ status["backend"] = "pending"
    /\ error = cause
    /\ result = "rejected"

-----------------------------------------------------------------------------
Execs == {i \in Pos : IsExec(i)}

(* C25: no rollback and no retry: a step never removes a directory or a     *)
(* file and never changes back what a file holds, the log of what was done  *)
(* only grows, and no external command is run twice in the same directory,  *)
(* so a command that failed is the last thing the run did.                  *)
C25_NoRollbackNoRetry ==
    [][/\ dirs \subseteq dirs'
       /\ files \subseteq files'
       /\ \A p \in DOMAIN contents :
             p \in DOMAIN contents' /\ contents'[p] = contents[p]
       /\ packageJson # <<>> => packageJson' = packageJson
       /\ envFile # <<>> => envFile' = envFile
       /\ Len(log) <= Len(log') /\ SubSeq(log', 1, Len(log)) = log
       /\ \A i \in Execs' : \A j \in Execs' :
             (log'[i].target = log'[j].target) => i = j
       /\ (cause'.kind = "SubprocessError") =>
             /\ IsExec(Len(log))'
             /\ pc' = "failed"
      ]_vars

C25_Witness ==
    /\ pc = "failed"
    /\ cause.kind = "SubprocessError"
    /\ cause.at = Join(ProjectPath, "backend")
    /\ Cardinality(Execs) = 3
    /\ ManifestWritten
    /\ Written(ControllerPath(BackendPath(config), config))

-----------------------------------------------------------------------------
\* the collector has handed the answers to scaffold
Handed == pc = "scaffold" /\ DOMAIN config = ConfigFields

(* C26: every record the collector hands to scaffold has frontendFramework  *)
(* iff projectType is fullstack or frontend, and backendTemplate iff        *)
(* projectType is fullstack or backend.                                     *)
C26_PresenceInvariant ==
    Handed =>
        /\ config.projectType \in ProjectTypes
        /\ (config.frontendFramework # Undefined) <=> HasFrontend(config)
        /\ (config.backendTemplate # Undefined) <=> HasBackend(config)
        /\ config.frontendFramework # Undefined
              => config.frontendFramework \in FrontendFrameworks
        /\ config.backendTemplate # Undefined
              => config.backendTemplate \in BackendTemplates

C26_Witness ==
    /\ Handed
    /\ config.projectType = "backend"
    /\ config.frontendFramework = Undefined
    /\ config.backendTemplate = "express-ts"

(* C27: every record the collector hands to scaffold for a project with a   *)
(* backend has a database that is none, mongodb or postgresql, never an     *)
(* absent one.                                                              *)
C27_DatabasePopulated ==
    (Handed /\ HasBackend(config)) => config.database \in Databases

-----------------------------------------------------------------------------
ReadmeOnDisk == contents[ReadmePath]

(* C28: after a successful run the README has the line "Environment         *)
(* variables setup" iff the env template .env.example was written in that   *)
(* run.                                                                     *)
C28_ReadmeMatchesEnvTemplate ==
    result = "resolved" =>
        (EnvFeatureLine \in ReadmeOnDisk.features
            <=> Written(EnvPath(config)))

-----------------------------------------------------------------------------
RoutesOnDisk == contents[RoutesPath(BackendPath(config), config)]
ControllerOnDisk == contents[ControllerPath(BackendPath(config), config)]
ControllerSpecifier == "../controllers/user.controller.mjs"

(* C29: whenever the sample routes file is written, every name it imports   *)
(* from the sample controller is exported by the controller file written    *)
(* in the same run.                                                         *)
C29_RoutesImportsAreExported ==
    (/\ HasBackend(config)
     /\ Written(RoutesPath(BackendPath(config), config))) =>
        /\ Written(ControllerPath(BackendPath(config), config))
        /\ \A imp \in RoutesOnDisk.imports :
              imp.from = ControllerSpecifier
                  => imp.names \subseteq ControllerOnDisk.exports

\* the generated modules of the backend that are on disk
BackendModules ==
    {p \in DOMAIN contents :
        /\ p # ReadmePath
        /\ p # TsConfigPath(BackendPath(config))}

IsRelative(specifier) ==
    StartsWith(specifier, "./") \/ StartsWith(specifier, "../")

\* the path a relative specifier in the module at path p stands for
Resolve(p, specifier) ==
    IF StartsWith(specifier, "./")
    THEN Join(Dirname(p), SubSeq(specifier, 3, Len(specifier)))
    ELSE Join(Dirname(Dirname(p)), SubSeq(specifier, 4, Len(specifier)))

\* the .mts source a .mjs path stands for in a TypeScript backend
AsMts(p) == SubSeq(p, 1, Len(p) - 4) \o ".mts"

Resolved(p, specifier) ==
    \/ Written(Resolve(p, specifier))
    \/ Written(AsMts(Resolve(p, specifier)))

DataLayerSpecifier(specifier) ==
    \/ Includes(specifier, "/models/")
    \/ Includes(specifier, "/queries/")
    \/ Includes(specifier, "/db/")

(* C30: once the backend is set up, every relative module a generated       *)
(* backend file imports is a file written in the same run (.mjs standing    *)
(* for the .mts source), and with database none no generated file imports   *)
(* a models/, queries/ or db/ module.                                       *)
C30_RelativeImportsResolve ==
    (HasBackend(config) /\ status["backend"] = "succeeded") =>
        \A p \in BackendModules : \A imp \in contents[p].imports :
            IsRelative(imp.from) =>
                /\ Resolved(p, imp.from)
                /\ config.database = "none"
                      => ~DataLayerSpecifier(imp.from)

====
